---- MODULE Spec2Model ----
(***************************************************************************)
(* Model of subtree.py: a wrapper around "git subtree" that keeps a        *)
(* registry of named subtrees in git config and runs every mutating        *)
(* command inside an autostash context manager.                            *)
(*                                                                         *)
(* Strings are sequences of tokens.  The tokens "." and " " stand for the   *)
(* characters '.' and white space; every other token stands for a          *)
(* non-empty run of characters that str.split never cuts.                  *)
(***************************************************************************)
EXTENDS Integers, Sequences, FiniteSets, TLC

\* Number of invocations of the program in one behaviour.
MaxRuns == 2

----------------------------------------------------------------------------
\* Strings

Dot == "."
Space == " "

RECURSIVE SplitOn(_, _, _, _)
\* Splitting of s at every separator token, keeping empty parts:
\* done holds the finished parts, cur the part being read.
SplitOn(s, sep, done, cur) ==
    IF s = <<>> THEN Append(done, cur)
    ELSE IF Head(s) = sep THEN SplitOn(Tail(s), sep, Append(done, cur), <<>>)
    ELSE SplitOn(Tail(s), sep, done, Append(cur, Head(s)))

\* str.split('.')
split_dot(s) == SplitOn(s, Dot, <<>>, <<>>)

\* str.split(): split at runs of white space, empty parts dropped
split_ws(s) == SelectSeq(SplitOn(s, Space, <<>>, <<>>), LAMBDA p : p # <<>>)

\* 'subtree.%s.%s' % (name, key)
config_key(name, key) == <<"subtree", Dot>> \o name \o <<Dot>> \o key

----------------------------------------------------------------------------
\* Python dicts: a sequence of <<key, value>> pairs in insertion order,
\* no key twice.

DictKeys(d) == {d[i][1] : i \in 1..Len(d)}

DictGet(d, k) == d[CHOOSE i \in 1..Len(d) : d[i][1] = k][2]

\* d[k] = v
DictSet(d, k, v) ==
    IF k \in DictKeys(d)
    THEN [i \in 1..Len(d) |-> IF d[i][1] = k THEN <<k, v>> ELSE d[i]]
    ELSE Append(d, <<k, v>>)

\* d1 == d2 for dicts of strings: same pairs, any order
DictEq(d1, d2) == {d1[i] : i \in 1..Len(d1)} = {d2[i] : i \in 1..Len(d2)}

\* str.strip()
RECURSIVE lstrip(_)
lstrip(s) == IF s # <<>> /\ Head(s) = Space THEN lstrip(Tail(s)) ELSE s

RECURSIVE rstrip(_)
rstrip(s) ==
    IF s # <<>> /\ s[Len(s)] = Space THEN rstrip(SubSeq(s, 1, Len(s) - 1)) ELSE s

strip(s) == rstrip(lstrip(s))

\* whether string sub occurs in string s
Contains(s, sub) ==
    \E i \in 1..(Len(s) - Len(sub) + 1) : SubSeq(s, i, i + Len(sub) - 1) = sub

----------------------------------------------------------------------------
\* The command line (argparse, lines 87-105)

Cmds == {"list", "add", "push", "pull", "split"}

Aliases == {<<"x">>, <<"y">>, <<"a", Dot, "b">>}
Prefixes == {<<"p">>, <<"my", Space, "dir">>}
Urls == {<<"u">>}
\* 'master' is the default of the optional branch argument (line 100)
Branches == {<<"master">>, <<"dev">>}

NoArg == <<>>

\* the namespaces parse_args can return
Args ==
    {[cmd |-> "list", alias |-> NoArg, prefix |-> NoArg, url |-> NoArg,
      branch |-> NoArg]}
    \cup {[cmd |-> "add", alias |-> a, prefix |-> p, url |-> u, branch |-> b] :
             a \in Aliases, p \in Prefixes, u \in Urls, b \in Branches}
    \cup {[cmd |-> c, alias |-> a, prefix |-> NoArg, url |-> NoArg,
           branch |-> NoArg] : c \in {"push", "pull", "split"}, a \in Aliases}

----------------------------------------------------------------------------
\* The working tree and git's stash, as far as the program's git commands
\* read and change them.  A tree is the set of kinds of uncommitted change
\* it holds: wt_mod, an unstaged change of a tracked file; idx_mod, a staged
\* change of a tracked file; idx_add, a staged new file.

ChangeKinds == {"wt_mod", "idx_mod", "idx_add"}
KindOrder == <<"wt_mod", "idx_mod", "idx_add">>

\* exit status of 'git diff --quiet' (line 25)
git_diff_quiet(t) == IF "wt_mod" \in t THEN 1 ELSE 0

\* exit status of 'git diff --cached --quiet' (line 25)
git_diff_cached_quiet(t) == IF t \cap {"idx_mod", "idx_add"} # {} THEN 1 ELSE 0

\* what 'git stash create' prints for a tree: the name of a commit that
\* holds the tree's changes, and a line end (line 34)
git_stash_create_out(t) == SelectSeq(KindOrder, LAMBDA k : k \in t) \o <<Space>>

\* the changes held by the stash commit of that name
stash_changes(id) == {id[i] : i \in 1..Len(id)}

\* the tree after 'git reset --hard' (line 37)
git_reset_hard(t) == {}

\* the tree after a successful 'git stash apply <id>', which is run without
\* --index (line 43): the stashed changes come back, the staged changes of
\* tracked files as unstaged ones, staged new files staged again
git_stash_apply(t, id) ==
    t \cup {IF k = "idx_mod" THEN "wt_mod" ELSE k : k \in stash_changes(id)}

----------------------------------------------------------------------------
\* State

VARIABLES
    store,       \* git config: the lines <<key, value>> of the subtree keys
    tree,        \* the working tree's uncommitted changes
    stash_list,  \* the stash commits recorded by 'git stash store'
    runs,        \* invocations started so far
    pc,          \* where the running invocation is; "exited" between two
    args,        \* main: args
    db,          \* main: db
    old_db,      \* main: old_db
    stash,       \* autostash: the local variable stash
    tree0,       \* the working tree when autostash was entered
    store0,      \* git config when this invocation started
    calls,       \* the external commands this invocation has run, in order
    printed,     \* what this invocation has printed, in order
    body_runs,   \* how many times this invocation ran the with block
    exc,         \* the exception that ended the invocation, "None" if none
    exit_code    \* the invocation's exit status

vars == <<store, tree, stash_list, runs, pc, args, db, old_db, stash, tree0,
          store0, calls, printed, body_runs, exc, exit_code>>

\* a local variable not assigned yet
Unbound == [bound |-> FALSE, val |-> <<>>]
Bound(v) == [bound |-> TRUE, val |-> v]

\* one external command run through run(): its name, arguments and status
Call(cmd, cmdargs, code) == [cmd |-> cmd, args |-> cmdargs, code |-> code]

\* a registry of one subtree, written with git config by hand: read_db stops
\* at its assert for as long as git config has no subtree key, so that the
\* program does not write the first record itself
SeedStore ==
    << <<config_key(<<"x">>, <<"prefix">>), <<"p">> >>,
       <<config_key(<<"x">>, <<"url">>), <<"u">> >>,
       <<config_key(<<"x">>, <<"branch">>), <<"master">> >> >>

Init ==
    /\ store \in {<<>>, SeedStore}
    /\ tree \in SUBSET ChangeKinds
    /\ stash_list = {}
    /\ runs = 0
    /\ pc = "exited"
    /\ args \in {[cmd |-> "list", alias |-> NoArg, prefix |-> NoArg,
                  url |-> NoArg, branch |-> NoArg]}
    /\ db = [subtrees |-> <<>>]
    /\ old_db = [subtrees |-> <<>>]
    /\ stash = Unbound
    /\ tree0 = tree
    /\ store0 = store
    /\ calls = <<>>
    /\ printed = <<>>
    /\ body_runs = 0
    /\ exc = "None"
    /\ exit_code = 0

\* The invocation ends: with exception e uncaught when e is not "None"
\* (Python then exits with status 1, and sys.exit(1) does too), normally
\* otherwise.
Exit(e, msgs) ==
    /\ pc' = "exited"
    /\ exc' = e
    /\ exit_code' = IF e = "None" THEN 0 ELSE 1
    /\ printed' = printed \o msgs

----------------------------------------------------------------------------
\* main, up to the with block

\* a new process: parse_args (line 105)
parse_args ==
    /\ pc = "exited"
    /\ runs < MaxRuns
    /\ runs' = runs + 1
    /\ \E a \in Args : args' = a
    /\ pc' = "read_db"
    /\ db' = [subtrees |-> <<>>]
    /\ old_db' = [subtrees |-> <<>>]
    /\ stash' = Unbound
    /\ tree0' = tree
    /\ store0' = store
    /\ calls' = <<>>
    /\ printed' = <<>>
    /\ body_runs' = 0
    /\ exc' = "None"
    /\ exit_code' = 0
    /\ UNCHANGED <<store, tree, stash_list>>

\* 'git config --get-regexp "subtree\."' (line 65): one line 'key value'
\* for each key, and status 1 when no key matches
git_config_get_regexp(st) ==
    [code |-> IF st = <<>> THEN 1 ELSE 0,
     out |-> [i \in 1..Len(st) |-> st[i][1] \o <<Space>> \o st[i][2]]]

\* whether lines 69-70 unpack the line without a ValueError
line_unpacks(line) ==
    /\ Len(split_ws(line)) = 2
    /\ Len(split_dot(split_ws(line)[1])) = 3

RECURSIVE parse_lines(_, _)
\* the loop of lines 68-71 over lines that unpack
parse_lines(lines, subtrees) ==
    IF lines = <<>> THEN subtrees
    ELSE LET kv == split_ws(Head(lines))
             parts == split_dot(kv[1])
             name == parts[2]
             key == parts[3]
             rec == IF name \in DictKeys(subtrees)
                    THEN DictGet(subtrees, name) ELSE <<>>
         IN parse_lines(Tail(lines),
                        DictSet(subtrees, name, DictSet(rec, key, kv[2])))

\* read_db and the deepcopy of line 108.  env_ok: whether git could read its
\* configuration at all.
read_db ==
    /\ pc = "read_db"
    /\ \E env_ok \in BOOLEAN :
         LET r == git_config_get_regexp(store)
             code == IF env_ok THEN r.code ELSE 128
             out == IF env_ok THEN r.out ELSE <<>>
         IN /\ calls' = Append(calls, Call("git config --get-regexp", <<>>, code))
            /\ IF code # 0
               THEN Exit("AssertionError", <<>>) /\ UNCHANGED <<db, old_db>>
               ELSE IF \E i \in 1..Len(out) : ~line_unpacks(out[i])
               THEN Exit("ValueError", <<>>) /\ UNCHANGED <<db, old_db>>
               ELSE /\ db' = [subtrees |-> parse_lines(out, <<>>)]
                    /\ old_db' = db'
                    /\ pc' = "dispatch"
                    /\ UNCHANGED <<printed, exc, exit_code>>
    /\ UNCHANGED <<body_runs, store0, store, tree, stash_list, runs, args, stash, tree0>>

RECURSIVE list_lines(_)
\* what the loops of lines 111-114 print
list_lines(subtrees) ==
    IF subtrees = <<>> THEN <<>>
    ELSE LET name == Head(subtrees)[1]
             rec == Head(subtrees)[2]
         IN << name \o <<":">> >>
            \o [i \in 1..Len(rec) |->
                  <<"    ">> \o rec[i][1] \o <<" = ">> \o rec[i][2]]
            \o list_lines(Tail(subtrees))

\* the list command (lines 110-114)
list_cmd ==
    /\ pc = "dispatch"
    /\ args.cmd = "list"
    /\ printed' = printed \o list_lines(db.subtrees)
    /\ pc' = "write_db"
    /\ UNCHANGED <<body_runs, store0, store, tree, stash_list, runs, args, db, old_db, stash,
                   tree0, calls, exc, exit_code>>

\* cd_to_root (lines 58-62, called at line 118).  The status of the command
\* is not looked at; has_line: whether it printed a line at all.
cd_to_root ==
    /\ pc = "dispatch"
    /\ args.cmd \in {"add", "push", "pull", "split"}
    /\ \E has_line \in BOOLEAN :
         /\ calls' = Append(calls, Call("git worktree list", <<>>,
                                        IF has_line THEN 0 ELSE 128))
         /\ IF has_line
            THEN pc' = "autostash" /\ UNCHANGED <<printed, exc, exit_code>>
            ELSE Exit("IndexError", <<>>)
    /\ UNCHANGED <<body_runs, store0, store, tree, stash_list, runs, args, db, old_db, stash,
                   tree0>>

----------------------------------------------------------------------------
\* autostash

\* has_local_changes with the probes' statuses read the wrong way round
has_local_changes_inverted(t) ==
    git_diff_quiet(t) = 0 \/ git_diff_cached_quiet(t) = 0

\* has_local_changes (lines 24-27)
has_local_changes(t) == git_diff_quiet(t) # 0 \/ git_diff_cached_quiet(t) # 0

\* the commands has_local_changes runs: 'or' runs the second probe only
\* when the first one returned 0
probe_calls(t) ==
    << Call("git diff --quiet", <<>>, git_diff_quiet(t)) >>
    \o IF git_diff_quiet(t) = 0
       THEN << Call("git diff --cached --quiet", <<>>, git_diff_cached_quiet(t)) >>
       ELSE <<>>

msg_autostashing == <<"Auto-stashing changes...">>
msg_reset_failed(id) == <<"Failed to reset, but stashed at ">> \o id
msg_apply_failed == <<"Error applying autostash. Saving to stashes...">>
msg_store_failed(id) == <<"Failed to store stash ">> \o id \o <<"!">>
msg_failure(id) == <<"FAILURE! stash=">> \o id

\* the handler printing its message without the stash
autostash_except_no_id(e, st) ==
    [exc |-> e, msgs |-> << <<"FAILURE!">> >>]

\* The handler of lines 54-56 for exception e: what it prints and the
\* exception that leaves the generator.  Formatting the message reads the
\* local variable stash, an UnboundLocalError when it was never assigned.
autostash_except(e, st) ==
    IF st.bound
    THEN [exc |-> e, msgs |-> << msg_failure(st.val) >>]
    ELSE [exc |-> "UnboundLocalError", msgs |-> <<>>]

\* exception e raised inside the try block, or thrown in at a yield;
\* msgs: what was printed just before it
Raise(e, msgs) ==
    LET h == autostash_except(e, stash) IN Exit(h.exc, msgs \o h.msgs)

\* entering the with block: line 32, and the yield of line 53 on a clean tree
autostash_enter ==
    /\ pc = "autostash"
    /\ tree0' = tree
    /\ calls' = calls \o probe_calls(tree)
    /\ IF has_local_changes(tree)
       THEN /\ printed' = Append(printed, msg_autostashing)
            /\ pc' = "stash_create"
       ELSE /\ pc' = "body"
            /\ UNCHANGED printed
    /\ UNCHANGED <<body_runs, store0, store, tree, stash_list, runs, args, db, old_db, stash,
                   exc, exit_code>>

\* lines 34-36 with the status of git stash create not looked at
autostash_stash_create_unchecked ==
    /\ pc = "stash_create"
    /\ \E code \in {0, 1} :
         /\ calls' = Append(calls, Call("git stash create", <<>>, code))
         /\ stash' = Bound(strip(IF code = 0 THEN git_stash_create_out(tree)
                                 ELSE <<>>))
         /\ pc' = "reset"
    /\ UNCHANGED <<body_runs, store0, store, tree, stash_list, runs, args, db,
                   old_db, tree0, printed, exc, exit_code>>

\* lines 34-36.  When the status is not 0 the generator returns without a
\* yield, and contextlib's __enter__ raises RuntimeError("generator didn't
\* yield") to main.
autostash_stash_create ==
    /\ pc = "stash_create"
    /\ \E code \in {0, 1} :
         /\ calls' = Append(calls, Call("git stash create", <<>>, code))
         /\ IF code = 0
            THEN /\ stash' = Bound(strip(git_stash_create_out(tree)))
                 /\ pc' = "reset"
                 /\ UNCHANGED <<printed, exc, exit_code>>
            ELSE /\ Exit("RuntimeError", <<>>)
                 /\ UNCHANGED stash
    /\ UNCHANGED <<body_runs, store0, store, tree, stash_list, runs, args, db, old_db, tree0>>

\* lines 37-41 with the status of the reset not looked at
autostash_reset_unchecked ==
    /\ pc = "reset"
    /\ \E code \in {0, 1} :
         /\ calls' = Append(calls, Call("git reset --hard", <<>>, code))
         /\ tree' = IF code = 0 THEN git_reset_hard(tree) ELSE tree
         /\ pc' = "body"
    /\ UNCHANGED <<body_runs, store0, store, stash_list, runs, args, db, old_db, stash,
                   tree0, printed, exc, exit_code>>

\* lines 37-41: the reset, error() when it fails, the yield when it succeeds
autostash_reset ==
    /\ pc = "reset"
    /\ \E code \in {0, 1} :
         /\ calls' = Append(calls, Call("git reset --hard", <<>>, code))
         /\ IF code # 0
            THEN /\ Raise("SystemExit", << msg_reset_failed(stash.val) >>)
                 /\ UNCHANGED tree
            ELSE /\ tree' = git_reset_hard(tree)
                 /\ pc' = "body"
                 /\ UNCHANGED <<printed, exc, exit_code>>
    /\ UNCHANGED <<body_runs, store0, store, stash_list, runs, args, db, old_db, stash, tree0>>

\* where the generator goes on after the with block ended normally: after
\* the yield of line 41 to line 43, after the yield of line 53 to its end
after_yield == IF stash.bound THEN "apply" ELSE "write_db"

\* lines 43-47 without the fall back to 'git stash store'
autostash_apply_no_fallback ==
    /\ pc = "apply"
    /\ \E code \in {0, 1} :
         /\ calls' = Append(calls, Call("git stash apply", <<stash.val>>, code))
         /\ IF code = 0
            THEN /\ tree' = git_stash_apply(tree, stash.val)
                 /\ UNCHANGED printed
            ELSE /\ printed' = printed \o << <<"<stdout>">>, <<"<stderr>">>,
                                            msg_apply_failed >>
                 /\ UNCHANGED tree
         /\ pc' = "write_db"
    /\ UNCHANGED <<body_runs, store0, store, stash_list, runs, args, db, old_db, stash,
                   tree0, exc, exit_code>>

\* lines 43-47
autostash_apply ==
    /\ pc = "apply"
    /\ \E code \in {0, 1} :
         /\ calls' = Append(calls, Call("git stash apply", <<stash.val>>, code))
         /\ IF code = 0
            THEN /\ tree' = git_stash_apply(tree, stash.val)
                 /\ pc' = "write_db"
                 /\ UNCHANGED printed
            ELSE /\ printed' = printed \o << <<"<stdout>">>, <<"<stderr>">>,
                                            msg_apply_failed >>
                 /\ pc' = "store"
                 /\ UNCHANGED tree
    /\ UNCHANGED <<body_runs, store0, store, stash_list, runs, args, db, old_db, stash, tree0,
                   exc, exit_code>>

\* lines 48-51 with the status of the store not looked at
autostash_store_unchecked ==
    /\ pc = "store"
    /\ \E code \in {0, 1} :
         /\ calls' = Append(calls, Call("git stash store", <<stash.val>>, code))
         /\ stash_list' = IF code = 0 THEN stash_list \cup {stash.val}
                          ELSE stash_list
         /\ pc' = "write_db"
    /\ UNCHANGED <<body_runs, store0, store, tree, runs, args, db, old_db, stash, tree0,
                   printed, exc, exit_code>>

\* lines 48-51
autostash_store ==
    /\ pc = "store"
    /\ \E code \in {0, 1} :
         /\ calls' = Append(calls, Call("git stash store", <<stash.val>>, code))
         /\ IF code # 0
            THEN /\ Raise("SystemExit", << msg_store_failed(stash.val) >>)
                 /\ UNCHANGED stash_list
            ELSE /\ stash_list' = stash_list \cup {stash.val}
                 /\ pc' = "write_db"
                 /\ UNCHANGED <<printed, exc, exit_code>>
    /\ UNCHANGED <<body_runs, store0, store, tree, runs, args, db, old_db, stash, tree0>>

----------------------------------------------------------------------------
\* The with block of main (lines 120-136), run at the generator's yield.  An
\* exception of the block is thrown into the generator at that yield.

\* the statuses a git subtree command can exit with
SubtreeCodes == {0, 1, 2}

K_prefix == <<"prefix">>
K_url == <<"url">>
K_branch == <<"branch">>

\* the dict of lines 124-125
new_subtree(a) ==
    << <<K_prefix, a.prefix>>, <<K_url, a.url>>, <<K_branch, a.branch>> >>

\* lines 120-125 without the assert of line 123
body_add_no_assert ==
    /\ pc = "body"
    /\ args.cmd = "add"
    /\ \E code \in SubtreeCodes :
         /\ calls' = Append(calls, Call("git subtree add",
                                        <<args.prefix, args.url, args.branch>>,
                                        code))
         /\ IF code # 0
            THEN Raise("CalledProcessError", <<>>) /\ UNCHANGED db
            ELSE /\ db' = [subtrees |->
                             DictSet(db.subtrees, args.alias, new_subtree(args))]
                 /\ pc' = after_yield
                 /\ UNCHANGED <<printed, exc, exit_code>>
    /\ body_runs' = body_runs + 1
    /\ UNCHANGED <<store0, store, tree, stash_list, runs, args, old_db, stash, tree0>>

\* lines 120-125 with run() called without check=True: the status of git
\* subtree add is not looked at
body_add_unchecked ==
    /\ pc = "body"
    /\ args.cmd = "add"
    /\ \E code \in SubtreeCodes :
         /\ calls' = Append(calls, Call("git subtree add",
                                        <<args.prefix, args.url, args.branch>>,
                                        code))
         /\ IF args.alias \in DictKeys(db.subtrees)
            THEN Raise("AssertionError", <<>>) /\ UNCHANGED db
            ELSE /\ db' = [subtrees |->
                             DictSet(db.subtrees, args.alias, new_subtree(args))]
                 /\ pc' = after_yield
                 /\ UNCHANGED <<printed, exc, exit_code>>
    /\ body_runs' = body_runs + 1
    /\ UNCHANGED <<store0, store, tree, stash_list, runs, args, old_db, stash, tree0>>

\* lines 120-125
body_add ==
    /\ pc = "body"
    /\ args.cmd = "add"
    /\ \E code \in SubtreeCodes :
         /\ calls' = Append(calls, Call("git subtree add",
                                        <<args.prefix, args.url, args.branch>>,
                                        code))
         /\ IF code # 0
            THEN Raise("CalledProcessError", <<>>) /\ UNCHANGED db
            ELSE IF args.alias \in DictKeys(db.subtrees)
            THEN Raise("AssertionError", <<>>) /\ UNCHANGED db
            ELSE /\ db' = [subtrees |->
                             DictSet(db.subtrees, args.alias, new_subtree(args))]
                 /\ pc' = after_yield
                 /\ UNCHANGED <<printed, exc, exit_code>>
    /\ body_runs' = body_runs + 1
    /\ UNCHANGED <<store0, store, tree, stash_list, runs, args, old_db, stash, tree0>>

\* whether the subscripts of the block find what they look up: the alias
\* in db['subtrees'], then the keys in the record
lookup_ok(subtrees, alias, keys) ==
    /\ alias \in DictKeys(subtrees)
    /\ keys \subseteq DictKeys(DictGet(subtrees, alias))

\* lines 127-131 with run() called without check=True
body_push_pull_unchecked ==
    /\ pc = "body"
    /\ args.cmd \in {"push", "pull"}
    /\ IF ~lookup_ok(db.subtrees, args.alias, {K_prefix, K_url, K_branch})
       THEN Raise("KeyError", <<>>) /\ UNCHANGED calls
       ELSE \E code \in SubtreeCodes :
              LET subtree == DictGet(db.subtrees, args.alias) IN
              /\ calls' = Append(calls,
                     Call("git subtree " \o args.cmd,
                          <<DictGet(subtree, K_prefix), DictGet(subtree, K_url),
                            DictGet(subtree, K_branch)>>, code))
              /\ pc' = after_yield
              /\ UNCHANGED <<printed, exc, exit_code>>
    /\ body_runs' = body_runs + 1
    /\ UNCHANGED <<store0, store, tree, stash_list, runs, args, db, old_db, stash,
                   tree0>>

\* lines 127-131
body_push_pull ==
    /\ pc = "body"
    /\ args.cmd \in {"push", "pull"}
    /\ IF ~lookup_ok(db.subtrees, args.alias, {K_prefix, K_url, K_branch})
       THEN Raise("KeyError", <<>>) /\ UNCHANGED calls
       ELSE \E code \in SubtreeCodes :
              LET subtree == DictGet(db.subtrees, args.alias) IN
              /\ calls' = Append(calls,
                     Call("git subtree " \o args.cmd,
                          <<DictGet(subtree, K_prefix), DictGet(subtree, K_url),
                            DictGet(subtree, K_branch)>>, code))
              /\ IF code # 0
                 THEN Raise("CalledProcessError", <<>>)
                 ELSE pc' = after_yield /\ UNCHANGED <<printed, exc, exit_code>>
    /\ body_runs' = body_runs + 1
    /\ UNCHANGED <<store0, store, tree, stash_list, runs, args, db, old_db, stash,
                   tree0>>

\* lines 133-136
body_split ==
    /\ pc = "body"
    /\ args.cmd = "split"
    /\ IF ~lookup_ok(db.subtrees, args.alias, {K_prefix})
       THEN Raise("KeyError", <<>>) /\ UNCHANGED calls
       ELSE \E code \in SubtreeCodes :
              LET subtree == DictGet(db.subtrees, args.alias) IN
              /\ calls' = Append(calls,
                     Call("git subtree split", <<DictGet(subtree, K_prefix)>>,
                          code))
              /\ IF code # 0
                 THEN Raise("CalledProcessError", <<>>)
                 ELSE pc' = after_yield /\ UNCHANGED <<printed, exc, exit_code>>
    /\ body_runs' = body_runs + 1
    /\ UNCHANGED <<store0, store, tree, stash_list, runs, args, db, old_db, stash,
                   tree0>>

----------------------------------------------------------------------------
\* write_db (lines 75-84, called at line 141 with old_db and db)

\* old_db.get(name) of line 78.  old_db is the dict {'subtrees': ...} that
\* read_db returned, so it has the one key 'subtrees'.
old_db_get(odb, name) ==
    IF name = <<"subtrees">> THEN Bound(odb.subtrees) ELSE Unbound

\* the test of line 78: subtree == old_db.get(name)
is_unchanged(subtree, odb, name) ==
    LET got == old_db_get(odb, name) IN got.bound /\ DictEq(subtree, got.val)

RECURSIVE pending_writes(_, _)
\* the <<key, value>> pairs the loops of lines 76-83 hand to git config
pending_writes(odb, subtrees) ==
    IF subtrees = <<>> THEN <<>>
    ELSE LET name == Head(subtrees)[1]
             subtree == Head(subtrees)[2]
         IN (IF is_unchanged(subtree, odb, name) THEN <<>>
             ELSE [i \in 1..Len(subtree) |->
                     <<config_key(name, subtree[i][1]), subtree[i][2]>>])
            \o pending_writes(odb, Tail(subtrees))

\* git config after 'git config --replace-all key value'
git_config_replace_all(st, key, value) == DictSet(st, key, value)

RECURSIVE apply_writes(_, _)
apply_writes(st, w) ==
    IF w = <<>> THEN st
    ELSE apply_writes(git_config_replace_all(st, Head(w)[1], Head(w)[2]), Tail(w))

\* write_db, and the end of main.  failed: the write whose status is not 0
\* (the assert of line 84 then ends the loop), 0 when every write succeeds.
write_db ==
    /\ pc = "write_db"
    /\ LET w == pending_writes(old_db, db.subtrees) IN
       \E failed \in 0..Len(w) :
         LET ran == IF failed = 0 THEN Len(w) ELSE failed
             done == IF failed = 0 THEN Len(w) ELSE failed - 1
         IN /\ calls' = calls \o
                  [i \in 1..ran |-> Call("git config --replace-all",
                                         <<w[i][1], w[i][2]>>,
                                         IF i = failed THEN 1 ELSE 0)]
            /\ store' = apply_writes(store, SubSeq(w, 1, done))
            /\ Exit(IF failed = 0 THEN "None" ELSE "AssertionError", <<>>)
    /\ UNCHANGED <<body_runs, store0, tree, stash_list, runs, args, db, old_db, stash, tree0>>

----------------------------------------------------------------------------

Next ==
    \/ parse_args
    \/ read_db
    \/ list_cmd
    \/ cd_to_root
    \/ autostash_enter
    \/ autostash_stash_create
    \/ autostash_reset
    \/ body_add
    \/ body_push_pull
    \/ body_split
    \/ autostash_apply
    \/ autostash_store
    \/ write_db

Spec == Init /\ [][Next]_vars

----------------------------------------------------------------------------
\* Reading the record of an invocation

CallIdx(cmd) == {i \in 1..Len(calls) : calls[i].cmd = cmd}
Ran(cmd) == CallIdx(cmd) # {}
RanWith(cmd, ok) ==
    \E i \in CallIdx(cmd) : (calls[i].code = 0) = ok
CountCalls(cmd) == Cardinality(CallIdx(cmd))
LastCall == calls[Len(calls)]
Printed(msg) == \E i \in 1..Len(printed) : printed[i] = msg

SubtreeCmds ==
    {"git subtree add", "git subtree push", "git subtree pull",
     "git subtree split"}
StashCmds ==
    {"git stash create", "git reset --hard", "git stash apply",
     "git stash store"}

\* the with block of this invocation ended with an exception after the
\* reset had succeeded: no command was run after the block's own
BlockFailedAfterReset ==
    /\ pc = "exited"
    /\ exc # "None"
    /\ body_runs = 1
    /\ RanWith("git reset --hard", TRUE)
    /\ LastCall.cmd \in SubtreeCmds \cup {"git reset --hard"}

----------------------------------------------------------------------------
\* Claims

C2_CreateFailureIsCleanStart ==
    (pc = "exited" /\ RanWith("git stash create", FALSE))
        => /\ body_runs = 1
           /\ ~Ran("git reset --hard")
           /\ ~Ran("git stash apply")
           /\ ~Ran("git stash store")

\* C3 as stated: an invocation that leaves the registry as it was loaded
\* runs no git config write.
C3_NoWriteForUnchanged ==
    (pc = "exited" /\ db = old_db) => ~Ran("git config --replace-all")

\* C4 as stated: git subtree add is never run for an alias that is in the
\* loaded registry.
C4_NoMountForKnownAlias ==
    Ran("git subtree add") => args.alias \notin DictKeys(old_db.subtrees)

\* C5 as stated: a push, pull or split that fails at the lookup of an alias
\* that is not in the loaded registry has run no command beyond the
\* registry load and has left the working tree as it found it.
C5_UnknownAliasRunsNothing ==
    (/\ args.cmd \in {"push", "pull", "split"}
     /\ pc = "exited"
     /\ body_runs = 1
     /\ args.alias \notin DictKeys(db.subtrees))
        => /\ \A i \in 1..Len(calls) : calls[i].cmd = "git config --get-regexp"
           /\ tree = tree0

\* C6: when both probes report no changes for the tree the invocation
\* found, it runs none of stash create, reset, stash apply and stash store,
\* and the with block at most once.
C6_CleanTreeNeverStashes ==
    (git_diff_quiet(tree0) = 0 /\ git_diff_cached_quiet(tree0) = 0)
        => /\ \A i \in 1..Len(calls) : calls[i].cmd \notin StashCmds
           /\ body_runs <= 1
           /\ stash = Unbound
           /\ tree = tree0

C6_Witness ==
    /\ pc = "exited"
    /\ git_diff_quiet(tree0) = 0 /\ git_diff_cached_quiet(tree0) = 0
    /\ args.cmd = "add"
    /\ body_runs = 1
    /\ Ran("git diff --cached --quiet")
    /\ exc = "None"

\* C7 as stated: after a transaction in which stash create, reset, the with
\* block and stash apply all succeeded, both probes report what they
\* reported before it, and the uncommitted changes are the same.
C7_DiffStatusRestored ==
    RanWith("git stash apply", TRUE)
        => /\ git_diff_quiet(tree) = git_diff_quiet(tree0)
           /\ git_diff_cached_quiet(tree) = git_diff_cached_quiet(tree0)
           /\ tree = tree0

\* C8: once git reset --hard has failed, the process has exited with status
\* 1 through error(), the message of line 39 with the stash was printed,
\* the with block was not run, and stash apply, stash store and git config
\* writes were not run.
C8_ResetFailureIsFatal ==
    RanWith("git reset --hard", FALSE)
        => /\ pc = "exited"
           /\ exc = "SystemExit"
           /\ exit_code = 1
           /\ stash.bound /\ stash.val # <<>>
           /\ Printed(msg_reset_failed(stash.val))
           /\ Contains(msg_reset_failed(stash.val), stash.val)
           /\ body_runs = 0
           /\ ~Ran("git stash apply")
           /\ ~Ran("git stash store")
           /\ ~Ran("git config --replace-all")

C8_Witness ==
    /\ RanWith("git reset --hard", FALSE)
    /\ pc = "exited"
    /\ tree = {"idx_mod"}

\* C9: once git stash apply has failed, git stash store is run exactly once,
\* with the stash that apply was given; when it succeeded the stash is in
\* the stash list and the process goes on to write_db, so that it exits
\* normally or by the assert of a failed git config write.
C9_ApplyFailureStoresStash ==
    RanWith("git stash apply", FALSE)
        => /\ body_runs = 1
           /\ CountCalls("git stash apply") = 1
           /\ IF pc = "store" THEN ~Ran("git stash store")
              ELSE /\ CountCalls("git stash store") = 1
                   /\ \A i \in CallIdx("git stash store"),
                         j \in CallIdx("git stash apply") :
                        /\ calls[i].args = <<stash.val>>
                        /\ calls[i].args = calls[j].args
                        /\ j < i
           /\ RanWith("git stash store", TRUE)
                => /\ stash.val \in stash_list
                   /\ pc \in {"write_db", "exited"}
                   /\ pc = "exited"
                        => \/ exc = "None" /\ exit_code = 0
                           \/ /\ exc = "AssertionError"
                              /\ LastCall.cmd = "git config --replace-all"
                              /\ LastCall.code # 0

C9_Witness ==
    /\ RanWith("git stash apply", FALSE)
    /\ RanWith("git stash store", TRUE)
    /\ pc = "exited"
    /\ exc = "None"
    /\ args.cmd = "add"
    /\ Ran("git config --replace-all")

\* C10: once git stash apply and then git stash store have failed, the
\* process has exited with status 1 through error(), the message of line 51
\* with the stash was printed, and no git config write was run.
C10_StoreFailureIsFatal ==
    (RanWith("git stash apply", FALSE) /\ RanWith("git stash store", FALSE))
        => /\ pc = "exited"
           /\ exc = "SystemExit"
           /\ exit_code = 1
           /\ stash.bound /\ stash.val # <<>>
           /\ Printed(msg_store_failed(stash.val))
           /\ Contains(msg_store_failed(stash.val), stash.val)
           /\ stash.val \notin stash_list
           /\ ~Ran("git config --replace-all")

C10_Witness ==
    /\ RanWith("git stash apply", FALSE)
    /\ RanWith("git stash store", FALSE)
    /\ pc = "exited"
    /\ args.cmd = "pull"

----------------------------------------------------------------------------
\* Claims, continued

\* the invocation has ended in one of these failures: a push, pull or split
\* of an alias that is not in the registry, an add of an alias that is, a
\* git subtree command with a status other than 0, a failed reset, a failed
\* stash store
FailedBeforeWriteBack ==
    /\ pc = "exited"
    /\ \/ /\ args.cmd \in {"push", "pull", "split"}
          /\ body_runs = 1
          /\ args.alias \notin DictKeys(old_db.subtrees)
       \/ /\ args.cmd = "add"
          /\ body_runs = 1
          /\ args.alias \in DictKeys(old_db.subtrees)
       \/ \E c \in SubtreeCmds : RanWith(c, FALSE)
       \/ RanWith("git reset --hard", FALSE)
       \/ RanWith("git stash store", FALSE)

\* C11: an invocation that ended in one of these failures has run no git
\* config write, has ended with an exception, and has left git config as
\* it was when the invocation started.
C11_FailureWritesNothing ==
    FailedBeforeWriteBack
        => /\ ~Ran("git config --replace-all")
           /\ store = store0
           /\ exc # "None"
           /\ exit_code = 1

C11_Witness ==
    /\ FailedBeforeWriteBack
    /\ args.cmd = "add"
    /\ RanWith("git subtree add", FALSE)
    /\ store0 = SeedStore
    /\ args.alias = <<"y">>

\* C12 as stated: the list command runs no git config write and none of the
\* commands of a transaction: the registry load is the only command it runs.
C12_ListIsPureRead ==
    args.cmd = "list"
        => \A i \in 1..Len(calls) : calls[i].cmd = "git config --get-regexp"

\* the calls that wrote key
WritesOf(key) ==
    {i \in CallIdx("git config --replace-all") : calls[i].args[1] = key}

\* git config holds value under key
Holds(st, key, value) == \E i \in 1..Len(st) : st[i] = <<key, value>>

\* C13 as stated: after an add that ended normally, git config holds the
\* three keys of the alias with the values of the command line, each
\* written by exactly one git config --replace-all, and the registry that
\* read_db loads from that git config has the record with these values.
C13_AddedRecordIsLoaded ==
    (pc = "exited" /\ args.cmd = "add" /\ exc = "None")
        => /\ \A kv \in {new_subtree(args)[i] : i \in 1..3} :
                /\ Holds(store, config_key(args.alias, kv[1]), kv[2])
                /\ Cardinality(WritesOf(config_key(args.alias, kv[1]))) = 1
                /\ \A i \in WritesOf(config_key(args.alias, kv[1])) :
                     calls[i].args[2] = kv[2] /\ calls[i].code = 0
           /\ LET r == git_config_get_regexp(store) IN
              /\ r.code = 0
              /\ \A i \in 1..Len(r.out) : line_unpacks(r.out[i])
              /\ args.alias \in DictKeys(parse_lines(r.out, <<>>))
              /\ DictEq(DictGet(parse_lines(r.out, <<>>), args.alias),
                        new_subtree(args))

\* C14 as stated: when git config has no subtree key and git could run the
\* query, read_db returns the empty registry and the command goes on: the
\* invocation does not end at the assert of read_db.
C14_EmptyRegistryLoads ==
    (store0 = <<>> /\ calls # <<>> /\ calls[1].code # 128)
        => /\ ~(pc = "exited" /\ exc = "AssertionError" /\ Len(calls) = 1)
           /\ db.subtrees = <<>> => old_db.subtrees = <<>>

\* C15: no step removes a line of git config or changes its value, and
\* after every step of a push, pull or split the registry in memory is the
\* one that was loaded.
C15_RecordsArePermanent ==
    [][/\ \A i \in 1..Len(store) : Holds(store', store[i][1], store[i][2])
       /\ args'.cmd \in {"push", "pull", "split"} => db' = old_db']_vars

C15_Witness ==
    /\ runs = 2
    /\ pc = "exited"
    /\ args.cmd = "pull"
    /\ exc = "None"
    /\ Len(store) = 6
    /\ store0 = store
    /\ CountCalls("git config --replace-all") = 6

\* C16 as stated: when a git subtree command exits with a status other than
\* 0, the process exits with that status.
C16_StatusPropagated ==
    \A c \in SubtreeCmds :
        RanWith(c, FALSE) => (pc = "exited" /\ exit_code = LastCall.code)

\* C16 amended: when a git subtree command exits with a status other than
\* 0, it is the last command the process runs, and the process ends through
\* an uncaught exception with status 1, whatever the command's status was:
\* CalledProcessError when autostash had stashed, else the handler's
\* UnboundLocalError.
C16_UncaughtExceptionStatus ==
    \A c \in SubtreeCmds :
        RanWith(c, FALSE)
            => /\ pc = "exited"
               /\ LastCall.cmd = c
               /\ exit_code = 1
               /\ exc = IF stash.bound THEN "CalledProcessError"
                        ELSE "UnboundLocalError"

C16_Witness ==
    /\ RanWith("git subtree pull", FALSE)
    /\ LastCall.code = 2
    /\ pc = "exited"
    /\ exc = "CalledProcessError"

\* the place of a command in a transaction
Rank(c) ==
    CASE c = "git diff --quiet" -> 1
      [] c = "git diff --cached --quiet" -> 2
      [] c = "git stash create" -> 3
      [] c = "git reset --hard" -> 4
      [] c \in SubtreeCmds -> 5
      [] c = "git stash apply" -> 6
      [] c = "git stash store" -> 7
      [] OTHER -> 0

\* C17: the commands of a transaction are run in the order probes, stash
\* create, reset, git subtree command, stash apply, stash store, each at
\* most once; stash create only after a probe reported changes, reset only
\* after stash create succeeded and gave a stash, stash apply only after
\* the with block and its git subtree command succeeded and with that
\* stash, stash store only after stash apply failed.
C17_TransactionOrder ==
    /\ \A i, j \in 1..Len(calls) :
         (i < j /\ Rank(calls[i].cmd) > 0 /\ Rank(calls[j].cmd) > 0)
             => Rank(calls[i].cmd) < Rank(calls[j].cmd)
    /\ body_runs <= 1
    /\ Ran("git stash create")
         => (RanWith("git diff --quiet", FALSE)
             \/ RanWith("git diff --cached --quiet", FALSE))
    /\ Ran("git reset --hard")
         => /\ RanWith("git stash create", TRUE)
            /\ stash.bound /\ stash.val # <<>>
    /\ Ran("git stash apply")
         => /\ body_runs = 1
            /\ RanWith("git reset --hard", TRUE)
            /\ \E c \in SubtreeCmds : RanWith(c, TRUE)
            /\ \A i \in CallIdx("git stash apply") : calls[i].args = <<stash.val>>
    /\ Ran("git stash store") => RanWith("git stash apply", FALSE)

C17_Witness ==
    /\ pc = "exited"
    /\ Ran("git diff --cached --quiet")
    /\ Ran("git stash store")
    /\ Len(calls) >= 9

\* the aliases that have a key in git config
StoreAliases(st) ==
    {SubSeq(st[i][1], 3, Len(st[i][1]) - 2) : i \in 1..Len(st)}

\* C18 as stated: when an invocation has ended, every alias that has a key
\* in git config has the three keys prefix, url and branch.
C18_NoPartialRecord ==
    pc = "exited"
        => \A a \in StoreAliases(store), k \in {K_prefix, K_url, K_branch} :
              \E i \in 1..Len(store) : store[i][1] = config_key(a, k)

\* C19 as stated, for an add of an alias that has no key in git config and
\* git config writes that do not fail: when the invocation has ended, the
\* alias has its record in git config if and only if git subtree add
\* succeeded in it, and no git config write was run before the with block
\* and the generator had ended.
C19_RecordIffMounted ==
    (/\ pc = "exited"
     /\ args.cmd = "add"
     /\ args.alias \notin StoreAliases(store0)
     /\ ~RanWith("git config --replace-all", FALSE))
        => /\ RanWith("git subtree add", TRUE)
                <=> \A kv \in {new_subtree(args)[i] : i \in 1..3} :
                       Holds(store, config_key(args.alias, kv[1]), kv[2])
           /\ \A i \in CallIdx("git config --replace-all"), j \in 1..Len(calls) :
                Rank(calls[j].cmd) > 0 => j < i

\* C20 as stated: when the with block fails on the path that made no stash,
\* the block's own exception leaves the transaction: the handler does not
\* fail with an UnboundLocalError.
C20_HandlerReadsOnlyBoundStash ==
    (pc = "exited" /\ body_runs = 1 /\ ~stash.bound /\ exc # "None"
     /\ ~Ran("git config --replace-all"))
        => exc \in {"CalledProcessError", "AssertionError", "KeyError"}

====
